---- MODULE Spec2Model ----
(***************************************************************************)
(* Modality estimation of splicing events (flotilla/compute/splicing.py).  *)
(*                                                                         *)
(* PSI values and bin edges are carried in tenths (0.2 is 2, 1.0 is 10).   *)
(* A missing value (numpy's nan) is NaN.  A binned fraction is the exact   *)
(* pair <<count, total>>.  A divergence is a fixed-point number in units   *)
(* of 1/LogOne bits.                                                       *)
(***************************************************************************)
EXTENDS Integers, Naturals, Sequences, FiniteSets, TLC

VARIABLES data, bins, tm_index, boot, ret, arg, edge_bin, cache

vars == <<data, bins, tm_index, boot, ret, arg, edge_bin, cache>>

(***************************************************************************)
(* Values                                                                  *)
(***************************************************************************)
NaN == -1

IsNaN(x) == x = NaN

\* fixed-point precision of log2: LogBits fractional bits
LogBits == 12
LogOne == 2 ^ LogBits
\* mantissa precision used while extracting the bits of a logarithm
MantBits == 14
MantOne == 2 ^ MantBits

(***************************************************************************)
(* The class-level reference table                                         *)
(***************************************************************************)
modalities_bins == << <<1, 0, 0>>, <<0, 1, 0>>, <<0, 0, 1>>,
                      <<1, 0, 1>>, <<1, 1, 1>> >>

modalities_names == <<"excluded", "middle", "included", "bimodal", "uniform">>

NBins == Len(modalities_bins[1])

BinPos == 1 .. NBins

ModPos == 1 .. Len(modalities_names)

\* the patterns under the names in reverse order
true_modalities_reversed ==
  [m \in 1 .. Len(modalities_names) |->
     modalities_bins[Len(modalities_names) + 1 - m]]

\* true_modalities = DataFrame(modalities_bins.T, columns=modalities_names):
\* column m of the table is row m of modalities_bins
true_modalities == [m \in ModPos |-> modalities_bins[m]]

\* the table's row labels as pandas creates them: 0, 1, 2
RangeIndex == [b \in BinPos |-> <<b - 1, b - 1>>]

(***************************************************************************)
(* log2 in fixed point                                                     *)
(***************************************************************************)
RECURSIVE FracBitsOf(_, _)
\* the k fractional bits of log2(y / MantOne), for y / MantOne in [1, 2)
FracBitsOf(y, k) ==
  IF k = 0 THEN 0
  ELSE LET sq == (y * y) \div MantOne
       IN  IF sq >= 2 * MantOne
           THEN 2 ^ (k - 1) + FracBitsOf(sq \div 2, k - 1)
           ELSE FracBitsOf(sq, k - 1)

RECURSIVE Log2FP(_, _)
\* log2(a / b) * LogOne, for integers a, b > 0
Log2FP(a, b) ==
  IF a >= 2 * b THEN LogOne + Log2FP(a, 2 * b)
  ELSE IF a < b THEN Log2FP(2 * a, b) - LogOne
  ELSE FracBitsOf((a * MantOne) \div b, LogBits)

RECURSIVE Isqrt(_, _, _)
\* the largest r in lo .. hi with r * r <= x (lo * lo <= x < (hi + 1) ^ 2)
Isqrt(x, lo, hi) ==
  IF lo = hi THEN lo
  ELSE LET mid == (lo + hi + 1) \div 2
       IN  IF mid * mid <= x THEN Isqrt(x, mid, hi) ELSE Isqrt(x, lo, mid - 1)

RECURSIVE SumSeq(_)
SumSeq(s) == IF s = <<>> THEN 0 ELSE s[1] + SumSeq(Tail(s))

(***************************************************************************)
(* infotheory: binify and jsd                                              *)
(***************************************************************************)
\* the row labels binify gives the binned matrix: one per bin
BinLabels(edges) == [b \in BinPos |-> <<edges[b], edges[b + 1]>>]

\* The bin a value falls in, 0 when outside the edges.  infotheory.py is
\* not among the sources modelled.  binify is described as following the
\* edge semantics of its reference implementation, and in two ways that
\* disagree about a value equal to included_min: counted in the last bin,
\* [included_min, 1], or in the middle one, (excluded_max, included_min].
\* So a value on an inner edge is counted in one of the two bins that meet
\* there: edge_bin[1] is the bin of a value equal to edges[2] and
\* edge_bin[2] that of a value equal to edges[3], the same for every call
\* of a run.
BinOf(v, edges) ==
  IF v < edges[1] \/ v > edges[NBins + 1] THEN 0
  ELSE IF v = edges[2] THEN edge_bin[1]
  ELSE IF v < edges[2] THEN 1
  ELSE IF v = edges[NBins] THEN edge_bin[2]
  ELSE IF v < edges[NBins] THEN 2
  ELSE NBins

\* a fraction <<count, total>> is undefined (0/0, nan) when total is 0
IsNaNFrac(f) == f[2] = 0

\* one event's column of values -> its fractions per bin: the count of the
\* bin over the count of all bins, 0/0 when the column has nothing to count
BinifyColumn(col, edges) ==
  LET inbin(b) == Cardinality({r \in DOMAIN col :
                                 ~IsNaN(col[r]) /\ BinOf(col[r], edges) = b})
      total == SumSeq([b \in BinPos |-> inbin(b)])
  IN  [b \in BinPos |-> <<inbin(b), total>>]

\* binify(data, bins): a bins x events frame of fractions
binify(values, edges) ==
  [index |-> BinLabels(edges),
   columns |-> [e \in DOMAIN values |-> BinifyColumn(values[e], edges)]]

\* jsd(q, p) * LogOne rounded down: q a raw 0/1 pattern, p a column of
\* fractions.  Both are normalised to sum to 1; a zero term adds nothing.
jsd(q, p) ==
  IF \E b \in BinPos : IsNaNFrac(p[b]) THEN NaN
  ELSE
    LET c == [b \in BinPos |-> p[b][1]]
        S == SumSeq(c)
        k == SumSeq(q)
        klp == SumSeq([b \in BinPos |->
                 IF c[b] = 0 THEN 0
                 ELSE c[b] * Log2FP(2 * c[b] * k, c[b] * k + q[b] * S)])
        klq == SumSeq([b \in BinPos |->
                 IF q[b] = 0 THEN 0
                 ELSE q[b] * Log2FP(2 * q[b] * S, c[b] * k + q[b] * S)])
    IN  IF S = 0 \/ k = 0 THEN NaN
        ELSE (k * klp + S * klq) \div (2 * S * k)

\* np.sqrt of a fixed-point number
sqrt(x) == IF IsNaN(x) THEN NaN ELSE Isqrt(x * LogOne, 0, 2 * LogOne)

\* the largest number of rows of a frame that is binned
MaxRows == 4

\* the counts per bin of at most MaxRows values
CountColumns == {x \in [BinPos -> 0 .. MaxRows] : SumSeq(x) <= MaxRows}

\* counts per bin as fractions of their sum
AsFractions(x) == [b \in BinPos |-> <<x[b], SumSeq(x)>>]

\* every column binify can produce from at most MaxRows rows
FractionColumns ==
  {[b \in BinPos |-> <<c[b], SumSeq(c)>>] :
     c \in {x \in [BinPos -> 0 .. MaxRows] : SumSeq(x) <= MaxRows}}

(***************************************************************************)
(* Modalities: the single-pass estimator                                   *)
(***************************************************************************)
DefaultExcludedMax == 2
DefaultIncludedMin == 8

\* Modalities.__init__: self.bins = (0, excluded_max, included_min, 1)
ModalitiesInit(excluded_max, included_min) ==
  <<0, excluded_max, included_min, 10>>

\* _col_jsd_modalities: true_modalities.apply(jsd, axis=0, p=col).  The
\* table's columns and col are labelled vectors; pandas lines them up by
\* label, and labels that do not match leave nothing to compare.
jsd_modalities ==
  [m \in ModPos |-> [p \in FractionColumns |-> jsd(true_modalities[m], p)]]

col_jsd_modalities(col, col_index, table_index) ==
  [m \in ModPos |->
     IF table_index = col_index THEN jsd_modalities[m][col] ELSE NaN]

\* sqrt_jsd_modalities: modalities x events, np.sqrt of the above
sqrt_jsd_modalities(binned, table_index) ==
  [e \in DOMAIN binned.columns |->
     LET d == col_jsd_modalities(binned.columns[e], binned.index, table_index)
     IN  [m \in ModPos |-> sqrt(d[m])]]

RECURSIVE ArgminScan(_, _, _)
\* numpy's scan for the minimum: a nan, once met, is kept; otherwise a
\* later value replaces the best one only when it is strictly smaller
ArgminScan(d, m, best) ==
  IF m > Len(d) THEN best
  ELSE IF IsNaN(d[best]) THEN best
  ELSE IF IsNaN(d[m]) \/ d[m] < d[best] THEN ArgminScan(d, m + 1, m)
  ELSE ArgminScan(d, m + 1, best)

RECURSIVE ArgmaxOfDivergences(_, _, _)
\* the scan with the comparison turned round (np.argmax for np.argmin)
ArgmaxOfDivergences(d, m, best) ==
  IF m > Len(d) THEN best
  ELSE IF IsNaN(d[best]) THEN best
  ELSE IF IsNaN(d[m]) \/ d[m] > d[best] THEN ArgmaxOfDivergences(d, m + 1, m)
  ELSE ArgmaxOfDivergences(d, m + 1, best)

argmax_for_argmin(d) == ArgmaxOfDivergences(d, 2, 1)

RECURSIVE LastMinScan(_, _, _)
\* the scan that lets a later equal value replace the best one
LastMinScan(d, m, best) ==
  IF m > Len(d) THEN best
  ELSE IF IsNaN(d[best]) THEN best
  ELSE IF IsNaN(d[m]) \/ d[m] <= d[best] THEN LastMinScan(d, m + 1, m)
  ELSE LastMinScan(d, m + 1, best)

argmin_last(d) == LastMinScan(d, 2, 1)

\* np.argmin of one column of the divergence matrix
argmin(d) == ArgminScan(d, 2, 1)

\* every event given the modality of the first event
assignments_firstevent(sqrt_jsd) ==
  [e \in DOMAIN sqrt_jsd |-> modalities_names[argmin(sqrt_jsd[1])]]

\* assignments: true_modalities.columns[np.argmin(values, axis=0)]
assignments(sqrt_jsd) ==
  [e \in DOMAIN sqrt_jsd |-> modalities_names[argmin(sqrt_jsd[e])]]

\* the divergences taken against the table as the previous call left it
\* (the index assignment moved after the computation)
single_fit_transform_stale(values, edges, table_index) ==
  assignments(sqrt_jsd_modalities(binify(values, edges), table_index))

\* the matrix binned without its first row
single_fit_transform_skipfirst(values, edges, table_index) ==
  LET binned == binify([e \in DOMAIN values |->
                          SubSeq(values[e], 2, Len(values[e]))], edges)
  IN  assignments(sqrt_jsd_modalities(binned, binned.index))

\* _single_fit_transform, the value returned.  The table's index is set to
\* the binned frame's index before the divergences are computed.
single_fit_transform(values, edges, table_index) ==
  LET binned == binify(values, edges)
      new_index == binned.index
  IN  assignments(sqrt_jsd_modalities(binned, new_index))

\* _single_fit_transform, what it leaves in true_modalities.index
single_fit_index(edges) == binify(<<>>, edges).index

(***************************************************************************)
(* Frames: index (row labels), columns (column labels), values by column   *)
(***************************************************************************)
\* a missing entry of a frame of labels (object dtype)
Missing == "nan"

Positions(n) == [j \in 1 .. n |-> j]

\* the number of non-missing values of column c
NonMissing(frame, c) ==
  Cardinality({r \in DOMAIN frame.values[c] : ~IsNaN(frame.values[c][r])})

\* frame.ix[frame.index[index], :] for valid 0-based positions
TakeRows(frame, index) ==
  [index |-> [j \in DOMAIN index |-> frame.index[index[j] + 1]],
   columns |-> frame.columns,
   values |-> [c \in DOMAIN frame.values |->
                 [j \in DOMAIN index |-> frame.values[c][index[j] + 1]]]]

\* the columns with more than t values
dropna_strict(frame, t) ==
  LET keep == SelectSeq(Positions(Len(frame.columns)),
                        LAMBDA c : NonMissing(frame, c) > t)
  IN  [index |-> frame.index,
       columns |-> [k \in DOMAIN keep |-> frame.columns[keep[k]]],
       values |-> [k \in DOMAIN keep |-> frame.values[keep[k]]]]

\* frame.dropna(axis=1, thresh=t): the columns with at least t values
dropna(frame, t) ==
  LET keep == SelectSeq(Positions(Len(frame.columns)),
                        LAMBDA c : NonMissing(frame, c) >= t)
  IN  [index |-> frame.index,
       columns |-> [k \in DOMAIN keep |-> frame.columns[keep[k]]],
       values |-> [k \in DOMAIN keep |-> frame.values[keep[k]]]]

(***************************************************************************)
(* sklearn cross_validation.Bootstrap and numpy's array addition           *)
(***************************************************************************)
TrainSize(n) == (n + 1) \div 2

TestSize(n) == n - TrainSize(n)

Perms(n) ==
  {f \in [1 .. n -> 0 .. (n - 1)] : \A i, j \in 1 .. n : f[i] = f[j] => i = j}

\* every (train_index, test_index) one iteration of Bootstrap(n) can yield:
\* a random partition, then a draw with replacement inside each part
BootstrapSplits(n) ==
  {<<[j \in 1 .. TrainSize(n) |-> perm[tr[j] + 1]],
     [j \in 1 .. TestSize(n) |-> perm[TrainSize(n) + te[j] + 1]]>> :
     perm \in Perms(n),
     tr \in [1 .. TrainSize(n) -> 0 .. (TrainSize(n) - 1)],
     te \in [1 .. TestSize(n) -> 0 .. (TestSize(n) - 1)]}

\* the same, worked out once for every number of rows
BootstrapSplitsOf == [n \in 1 .. MaxRows |-> BootstrapSplits(n)]

\* whether numpy can add two 1-d arrays: equal lengths, or one of length 1
CanBroadcast(a, b) == Len(a) = Len(b) \/ Len(a) = 1 \/ Len(b) = 1

\* a + b for 1-d arrays: element by element, a one-element array stretched
ArrayAdd(a, b) ==
  LET n == IF Len(a) = 1 THEN Len(b) ELSE Len(a)
  IN  [j \in 1 .. n |-> a[IF Len(a) = 1 THEN 1 ELSE j]
                        + b[IF Len(b) = 1 THEN 1 ELSE j]]

(***************************************************************************)
(* Modalities: the bootstrapped estimator                                  *)
(***************************************************************************)
DefaultMinSamples == 10

DefaultThresh == <<3, 5>>

\* index = train_index + test_index
TrialIndex(split) == ArrayAdd(split[1], split[2])

\* data.index[index] fails on a position outside the index
IndexInRange(frame, index) ==
  \A j \in DOMAIN index : index[j] >= 0 /\ index[j] < Len(frame.index)

\* psi = data.ix[data.index[index], :].dropna(axis=1, thresh=min_samples)
TrialPsi(frame, index, min_samples) ==
  dropna(TakeRows(frame, index), min_samples)

\* assignments.ix[i] = series: the row gets the series' value under the
\* columns the series has, and stays missing under the others
AlignRow(columns, series_columns, series_values) ==
  [c \in DOMAIN columns |->
     IF \E k \in DOMAIN series_columns : series_columns[k] = columns[c]
     THEN series_values[CHOOSE k \in DOMAIN series_columns :
                          series_columns[k] = columns[c]]
     ELSE Missing]

\* one iteration of the loop: the row written to assignments
TrialRow(frame, index, min_samples, edges, table_index) ==
  LET psi == TrialPsi(frame, index, min_samples)
  IN  AlignRow(frame.columns, psi.columns,
               single_fit_transform(psi.values, edges, table_index))

\* the row labels of the counts frame: the labels some column voted for,
\* in sorted order
SortedNames == <<"bimodal", "excluded", "included", "middle", "uniform">>

\* the labels voted for in the order of the reference table's columns
CountsIndex_tableorder(table) ==
  SelectSeq(modalities_names,
            LAMBDA name : \E i \in DOMAIN table :
                            \E c \in DOMAIN table[i] : table[i][c] = name)

CountsIndex(table) ==
  SelectSeq(SortedNames,
            LAMBDA name : \E i \in DOMAIN table :
                            \E c \in DOMAIN table[i] : table[i][c] = name)

\* collections.Counter(x.dropna()) of column c, read at label name
Votes(table, c, name) ==
  Cardinality({i \in DOMAIN table : table[i][c] = name})

\* counts.sum() of column c
ValidTrials(table, c) ==
  Cardinality({i \in DOMAIN table : table[i][c] # Missing})

\* the counts divided by the number of trials
Fraction_of_trials(table, c, name) ==
  IF Votes(table, c, name) = 0 THEN <<0, 0>>
  ELSE <<Votes(table, c, name), Len(table)>>

\* fractions = counts / counts.sum(): column c at label name; a label the
\* column never voted for is missing in counts, and so is its fraction
Fraction(table, c, name) ==
  IF Votes(table, c, name) = 0 THEN <<0, 0>>
  ELSE <<Votes(table, c, name), ValidTrials(table, c)>>

\* the fractions frame: a row per label of the counts frame, a column per
\* event
fractions(table, ncols) ==
  LET index == CountsIndex(table)
  IN  [c \in 1 .. ncols |->
         [m \in DOMAIN index |-> Fraction(table, c, index[m])]]

\* the comparison made strict
AtLeast_strict(f, thresh) ==
  ~IsNaNFrac(f) /\ f[1] * thresh[2] > thresh[1] * f[2]

\* fractions >= thresh, for thresh the rational thresh[1] / thresh[2]
AtLeast(f, thresh) ==
  ~IsNaNFrac(f) /\ f[1] * thresh[2] >= thresh[1] * f[2]

\* the fractions left unmasked
Masked_keepall(f, thresh) == f

\* fractions[fractions >= thresh]: the others become missing
Masked(f, thresh) == IF AtLeast(f, thresh) THEN f ELSE <<0, 0>>

RECURSIVE ArgmaxScan(_, _, _)
\* the first position of the largest finite fraction of x, from position m
ArgmaxScan(x, m, best) ==
  IF m > Len(x) THEN best
  ELSE IF IsNaNFrac(x[m]) THEN ArgmaxScan(x, m + 1, best)
  ELSE IF best = 0 THEN ArgmaxScan(x, m + 1, m)
  ELSE IF x[m][1] * x[best][2] > x[best][1] * x[m][2]
       THEN ArgmaxScan(x, m + 1, m)
  ELSE ArgmaxScan(x, m + 1, best)

RECURSIVE ArgLeastScan(_, _, _)
\* the first position of the smallest finite fraction of x, from position m
ArgLeastScan(x, m, best) ==
  IF m > Len(x) THEN best
  ELSE IF IsNaNFrac(x[m]) THEN ArgLeastScan(x, m + 1, best)
  ELSE IF best = 0 THEN ArgLeastScan(x, m + 1, m)
  ELSE IF x[m][1] * x[best][2] < x[best][1] * x[m][2]
       THEN ArgLeastScan(x, m + 1, m)
  ELSE ArgLeastScan(x, m + 1, best)

\* the label of the smallest entry in place of the largest
max_assignment_smallest(index, x) ==
  IF \A m \in DOMAIN x : IsNaNFrac(x[m]) THEN Missing
  ELSE index[ArgLeastScan(x, 1, 0)]

\* _max_assignment: nan when no entry is finite, else the label of the
\* largest entry
max_assignment(index, x) ==
  IF \A m \in DOMAIN x : IsNaNFrac(x[m]) THEN Missing
  ELSE index[ArgmaxScan(x, 1, 0)]

\* the same without the final fillna('unassigned')
thresh_assignments_nofill(table, ncols, thresh) ==
  LET index == CountsIndex(table)
  IN  [c \in 1 .. ncols |->
         max_assignment(index,
           [m \in DOMAIN index |->
              Masked(Fraction(table, c, index[m]), thresh)])]

\* each event given the vote of the last trial recorded
thresh_assignments_lastvote(table, ncols, thresh) ==
  [c \in 1 .. ncols |->
     IF table = <<>> \/ table[Len(table)][c] = Missing THEN "unassigned"
     ELSE table[Len(table)][c]]

\* the part of _bootstrapped_fit_transform after the loop
thresh_assignments(table, ncols, thresh) ==
  LET index == CountsIndex(table)
      picked(c) == max_assignment(index,
                     [m \in DOMAIN index |->
                        Masked(Fraction(table, c, index[m]), thresh)])
  IN  [c \in 1 .. ncols |->
         IF picked(c) = Missing THEN "unassigned" ELSE picked(c)]

\* the grouping with 'unassigned' treated as a missing key
groupby_size_named(labels) ==
  [name \in {labels[c] : c \in DOMAIN labels} \ {Missing, "unassigned"} |->
     Cardinality({c \in DOMAIN labels : labels[c] = name})]

\* counts: assignments.groupby(assignments).size()
groupby_size(labels) ==
  [name \in {labels[c] : c \in DOMAIN labels} \ {Missing} |->
     Cardinality({c \in DOMAIN labels : labels[c] = name})]

(***************************************************************************)
(* switchy_score and get_switchy_score_order                               *)
(***************************************************************************)
\* fixed-point unit of the sines and cosines
TrigOne == 1073741824

\* the square root of TrigOne: numbers are multiplied in two halves
HalfOne == 32768

\* sin(v * pi) * TrigOne and cos(v * pi) * TrigOne for v = 0, 0.1, ..., 1,
\* at position 10 * v + 1
SinPi ==
  <<0, 331804471, 631129609, 868675383, 1021189159, 1073741824,
    1021189159, 868675383, 631129609, 331804471, 0>>

CosPi ==
  <<1073741824, 1021189159, 868675383, 631129609, 331804471, 0,
    -331804471, -631129609, -868675383, -1021189159, -1073741824>>

\* a * b \div TrigOne for 0 <= a, b <= TrigOne, no product above 2^31
MulAbs(a, b) ==
  LET a1 == a \div HalfOne
      a0 == a % HalfOne
      b1 == b \div HalfOne
      b0 == b % HalfOne
  IN  a1 * b1 + (a1 * b0 + a0 * b1 + (a0 * b0) \div HalfOne) \div HalfOne

\* the product of two fixed-point numbers of [-1, 1]
MulFP(a, b) ==
  LET abs(x) == IF x < 0 THEN 0 - x ELSE x
  IN  IF (a < 0) = (b < 0) THEN MulAbs(abs(a), abs(b))
      ELSE 0 - MulAbs(abs(a), abs(b))

\* np.mean of fixed-point numbers, rounded down, the sum never formed
MeanFP(xs) ==
  SumSeq([j \in DOMAIN xs |-> xs[j] \div Len(xs)])
    + SumSeq([j \in DOMAIN xs |-> xs[j] % Len(xs)]) \div Len(xs)

RECURSIVE SqrtFP(_, _, _)
\* np.sqrt of a fixed-point number v of [0, 1]: the least r of lo .. hi
\* whose square is at least v
SqrtFP(v, lo, hi) ==
  IF lo >= hi THEN lo
  ELSE IF MulAbs((lo + hi) \div 2, (lo + hi) \div 2) >= v
       THEN SqrtFP(v, lo, (lo + hi) \div 2)
  ELSE SqrtFP(v, (lo + hi) \div 2 + 1, hi)

\* switchy_score(array) as <<score * TrigOne, 1>>:
\* (1 - std(sin)) * -mean(cos) over the non-nan entries; nan (<<0, 0>>)
\* when there is none
switchy_score(array) ==
  LET vs == SelectSeq(array, LAMBDA v : ~IsNaN(v))
      sines == [j \in DOMAIN vs |-> SinPi[vs[j] + 1]]
      mean_sin == MeanFP(sines)
      variance == MeanFP([j \in DOMAIN vs |->
                            MulFP(sines[j] - mean_sin, sines[j] - mean_sin)])
      std == SqrtFP(variance, 0, TrigOne)
      mean_cos == MeanFP([j \in DOMAIN vs |-> CosPi[vs[j] + 1]])
  IN  IF vs = <<>> THEN <<0, 0>>
      ELSE <<MulFP(TrigOne - std, 0 - mean_cos), 1>>

\* the error of two fixed-point scores together, in units of 1 / TrigOne:
\* scores no further apart are not told apart
ScoreTol == 12

\* a <= b for scores, nan sorting after every number
ScoreLeq(a, b) ==
  IsNaNFrac(b) \/ (~IsNaNFrac(a) /\ a[1] <= b[1] + ScoreTol)

\* the orders sorted the other way round
argsort_descending(scores) ==
  {order \in [1 .. Len(scores) -> 0 .. (Len(scores) - 1)] :
     /\ \A i, j \in DOMAIN order : order[i] = order[j] => i = j
     /\ \A i, j \in DOMAIN order :
          i < j => ScoreLeq(scores[order[j] + 1], scores[order[i] + 1])}

\* np.argsort(scores): the 0-based positions in ascending order of score;
\* the sort is not stable, so equal scores may come out in either order
argsort(scores) ==
  {order \in [1 .. Len(scores) -> 0 .. (Len(scores) - 1)] :
     /\ \A i, j \in DOMAIN order : order[i] = order[j] => i = j
     /\ \A i, j \in DOMAIN order :
          i < j => ScoreLeq(scores[order[i] + 1], scores[order[j] + 1])}

(***************************************************************************)
(* BaseData: feature renaming                                              *)
(***************************************************************************)
None == "None"

\* feature_data=None, the default of BaseData.__init__
NoFeatureData ==
  [given |-> FALSE, index |-> <<>>, columns |-> <<>>, values |-> <<>>]

\* what DataFrame.__getitem__ raises for the key None: ValueError ("cannot
\* label index with a null key") in the pandas releases the code was
\* written for, KeyError in later releases that still have .ix
NullKeyErrors == {"ValueError", "KeyError"}

\* pd.Series(self.data.columns.values, index=self.data.columns)
IdentitySeries(columns) ==
  [raised |-> "none", index |-> columns, values |-> columns]

\* the property feature_renamer_series, every outcome it can have:
\* feature_data[feature_rename_col] without its missing entries.  Indexing
\* None raises TypeError and indexing a frame by the key None can raise
\* ValueError: both are caught and answered with the columns named by
\* themselves.  A KeyError, raised for a label that is none of the frame's
\* columns, is not caught.
feature_renamer_series(feature_data, feature_rename_col, columns) ==
  IF ~feature_data.given THEN {IdentitySeries(columns)}
  ELSE IF feature_rename_col = None
  THEN {IF raised = "ValueError" THEN IdentitySeries(columns)
        ELSE [raised |-> raised, index |-> <<>>, values |-> <<>>] :
          raised \in NullKeyErrors}
  ELSE IF \A k \in DOMAIN feature_data.columns :
            feature_data.columns[k] # feature_rename_col
  THEN {[raised |-> "KeyError", index |-> <<>>, values |-> <<>>]}
  ELSE LET col == feature_data.values[
                    CHOOSE k \in DOMAIN feature_data.columns :
                      feature_data.columns[k] = feature_rename_col]
           keep == SelectSeq(Positions(Len(col)),
                             LAMBDA r : col[r] # Missing)
       IN  {[raised |-> "none",
             index |-> [k \in DOMAIN keep |-> feature_data.index[keep[k]]],
             values |-> [k \in DOMAIN keep |-> col[keep[k]]]]}

\* self.data.columns.intersection(feature_ids): the feature_ids that are
\* columns, in the order of feature_ids
intersection(columns, feature_ids) ==
  SelectSeq(feature_ids,
            LAMBDA f : \E c \in DOMAIN columns : columns[c] = f)

\* the body of maybe_renamed_to_feature_id on one outcome of the property
renamed_lookup(series, feature_rename_col, columns, feature_id) ==
  LET keep == SelectSeq(Positions(Len(series.index)),
                        LAMBDA k : series.values[k] = feature_id)
      feature_ids == [k \in DOMAIN keep |-> series.index[keep[k]]]
  IN  IF series.raised # "none"
      THEN [raised |-> series.raised, kind |-> "", value |-> <<>>,
            message |-> feature_rename_col]
      ELSE IF \E k \in DOMAIN series.values : series.values[k] = feature_id
      THEN [raised |-> "none", kind |-> "Index",
            value |-> intersection(columns, feature_ids), message |-> ""]
      ELSE IF \E c \in DOMAIN columns : columns[c] = feature_id
      THEN [raised |-> "none", kind |-> "str", value |-> <<feature_id>>,
            message |-> ""]
      ELSE [raised |-> "ValueError", kind |-> "", value |-> <<>>,
            message |-> feature_id]

\* maybe_renamed_to_feature_id(feature_id): what can be raised or returned
maybe_renamed_to_feature_id(feature_data, feature_rename_col, columns, feature_id) ==
  {renamed_lookup(series, feature_rename_col, columns, feature_id) :
     series \in feature_renamer_series(feature_data, feature_rename_col,
                                       columns)}

\* self.feature_renamer applied to one id: _feature_renamer when there is
\* feature_data and a rename column, the id itself otherwise (no id is
\* longer than the 20 characters _shortener keeps)
feature_renamer(series, x) ==
  IF \E k \in DOMAIN series.index : series.index[k] = x
  THEN series.values[CHOOSE k \in DOMAIN series.index : series.index[k] = x]
  ELSE x

\* the names of the columns feature_subset_to_feature_ids adds
CustomNames == <<"custom_1", "custom_2", "custom_3">>

\* the number of columns of feature_data whose name starts with 'custom'
n_custom(feature_data) ==
  Cardinality({k \in DOMAIN feature_data.columns :
                 \E j \in DOMAIN CustomNames :
                   feature_data.columns[k] = CustomNames[j]})

\* feature_subset_to_feature_ids(feature_subset, rename) for a
\* feature_subset that is None or a pd.Index of ids: every outcome, as what
\* is raised or returned and the feature_data left behind.  An Index is not
\* hashable, so looking it up in feature_subsets raises TypeError and the
\* ids are recorded in a new boolean column custom_N of feature_data.
feature_subset_to_feature_ids(feature_data, feature_rename_col, columns, feature_subset, rename) ==
  LET added ==
        [feature_data EXCEPT
           !.columns = Append(@, CustomNames[n_custom(feature_data) + 1]),
           !.values = Append(@, [r \in DOMAIN feature_data.index |->
                                   \E k \in DOMAIN feature_subset :
                                     feature_subset[k]
                                       = feature_data.index[r]])]
      returned(ids, fd) ==
        [raised |-> "none", value |-> ids, feature_data |-> fd]
  IN  IF feature_subset = <<>>
      THEN {returned(columns, feature_data)}
      ELSE IF ~feature_data.given
      THEN {[raised |-> "AttributeError", value |-> <<>>,
             feature_data |-> feature_data]}
      ELSE IF ~rename \/ feature_rename_col = None
      THEN {returned(feature_subset, added)}
      ELSE {IF series.raised # "none"
            THEN [raised |-> series.raised, value |-> <<>>,
                  feature_data |-> added]
            ELSE returned([k \in DOMAIN feature_subset |->
                             feature_renamer(series, feature_subset[k])],
                          added) :
              series \in feature_renamer_series(added, feature_rename_col,
                                                columns)}

(***************************************************************************)
(* Bounds and inputs                                                       *)
(***************************************************************************)
\* the largest n_iter a bootstrap call is given
MaxIter == 2

\* the caller's matrix: its row labels, column labels and cell values
SampleIds == <<"s1", "s2", "s3">>

EventIds == <<"e1", "e2">>

\* the values a cell of each column is drawn from
PsiValues == <<{0, 8, NaN}, {8, NaN}>>

\* the second event as the calls of both modes are given it: complete, or
\* with a single value
SecondEvent == {<<8, 8, 8>>, <<NaN, 8, NaN>>}

\* two estimators: Modalities() and Modalities(included_min=0.9)
Instances == {"A", "B"}

InstanceArgs ==
  [inst \in Instances |->
     IF inst = "A" THEN <<DefaultExcludedMax, DefaultIncludedMin>>
     ELSE <<DefaultExcludedMax, 9>>]

MinSamplesChoices == {2, DefaultMinSamples}

ThreshChoices == {DefaultThresh}

Callers == {"fit_transform", "counts"}

(***************************************************************************)
(* State                                                                   *)
(***************************************************************************)
NoSizes == [name \in {} |-> 0]

NoBoot ==
  [active |-> FALSE, caller |-> "none", inst |-> "none", n_iter |-> 0,
   thresh |-> <<0, 1>>, min_samples |-> 0, i |-> 0, assignments |-> <<>>,
   index |-> <<>>]

NoRet ==
  [op |-> "none", bootstrapped |-> FALSE, inst |-> "none",
   raised |-> "none", value |-> <<>>, sizes |-> NoSizes,
   n_iter |-> 0, thresh |-> <<0, 1>>, min_samples |-> 0, table |-> <<>>,
   fractions |-> <<>>, divergence |-> <<>>,
   kind |-> "", message |-> "",
   how |-> "computed", kept |-> <<>>, outlier_data |-> <<>>]

\* the argument of a method that is called on its own
NoArg ==
  [sqrt_jsd |-> <<>>, table |-> <<>>, thresh |-> <<0, 1>>, x |-> <<>>,
   p |-> <<>>, q |-> <<>>, feature_data |-> NoFeatureData,
   feature_rename_col |-> None, feature_id |-> "", outliers |-> {},
   pooled_samples |-> {}]

\* every matrix with the given labels whose column c holds values of
\* cells[c]
Frames(index, columns, cells) ==
  [index : {index}, columns : {columns},
   values : {v \in [DOMAIN columns ->
                      [DOMAIN index -> UNION {cells[c] : c \in DOMAIN cells}]] :
               \A c \in DOMAIN columns :
                 \A r \in DOMAIN index : v[c][r] \in cells[c]}]

\* the state once the estimators are constructed and the matrix is loaded
Constructed(frames) ==
  /\ data \in frames
  /\ bins = [inst \in Instances |->
               ModalitiesInit(InstanceArgs[inst][1], InstanceArgs[inst][2])]

\* fit_transform is wrapped by memoize (flotilla/util.py, not among the
\* sources modelled): a call can be answered with the result stored by an
\* earlier call of the same estimator with the same arguments.  cache holds,
\* for each estimator, the result of its first single-pass call on the
\* matrix.
NoCache == [inst \in Instances |-> [stored |-> FALSE, value |-> <<>>]]

\* the bins binify can count a value on the first and on the second inner
\* edge in
EdgeBins == {<<1, 2>>, <<1, 3>>, <<2, 2>>, <<2, 3>>}

\* binify counts a value on an inner edge in either bin
EitherBinify == edge_bin \in EdgeBins

\* the same for matrices none of whose values equals excluded_max
UpperEdgeBinify == edge_bin \in {eb \in EdgeBins : eb[1] = 1}

\* for the runs in which no value is binned
NoBinify == edge_bin = <<1, 3>>

\* no call made yet
Idle ==
  /\ tm_index = RangeIndex
  /\ boot = NoBoot
  /\ ret = NoRet
  /\ cache = NoCache

Init ==
  /\ Constructed({f \in Frames(SampleIds, EventIds, PsiValues) :
                    f.values[2] \in SecondEvent})
  /\ UpperEdgeBinify
  /\ Idle
  /\ arg = NoArg

(***************************************************************************)
(* Operations                                                              *)
(***************************************************************************)
\* what a call hands back: fit_transform the assignments, counts their
\* group sizes.  how tells the way the call was answered: "computed" by
\* running the body, "cached" from memoize's store, "again" by running the
\* body although the estimator had a stored result, "again_after_other"
\* when, besides, the last call to run a body was another estimator's
Returned(caller, bootstrapped, inst, labels, how) ==
  [NoRet EXCEPT !.op = caller, !.bootstrapped = bootstrapped, !.inst = inst,
                !.value = labels,
                !.sizes = IF caller = "counts" THEN groupby_size(labels)
                          ELSE NoSizes,
                !.how = how]

\* the result a call stores unless the estimator has one stored already
Stored(inst, labels) ==
  IF cache[inst].stored THEN cache
  ELSE [cache EXCEPT ![inst] = [stored |-> TRUE, value |-> labels]]

\* fit_transform(data) and counts(data), bootstrapped=False, when the body
\* of fit_transform runs: one _single_fit_transform of the whole matrix.
\* Whether a repeated call runs the body again is memoize's decision, so it
\* can do so whatever is stored.
SinglePassComputed(caller, inst) ==
  /\ ~boot.active
  /\ ret' = Returned(caller, FALSE, inst,
                     single_fit_transform(data.values, bins[inst], tm_index),
                     IF ~cache[inst].stored THEN "computed"
                     ELSE IF tm_index = single_fit_index(bins[inst])
                     THEN "again" ELSE "again_after_other")
  /\ tm_index' = single_fit_index(bins[inst])
  /\ cache' = Stored(inst, ret'.value)
  /\ UNCHANGED <<edge_bin, data, bins, boot, arg>>

\* the same calls answered by memoize with the stored result of an earlier
\* call: the body does not run and the reference table is not touched
SinglePassCached(caller, inst) ==
  /\ ~boot.active
  /\ cache[inst].stored
  /\ ret' = Returned(caller, FALSE, inst, cache[inst].value, "cached")
  /\ UNCHANGED <<edge_bin, cache, data, bins, tm_index, boot, arg>>

SinglePass(caller, inst) ==
  \/ SinglePassComputed(caller, inst)
  \/ SinglePassCached(caller, inst)

FitTransformSingle == \E inst \in Instances : SinglePass("fit_transform", inst)

CountsSingle == \E inst \in Instances : SinglePass("counts", inst)

\* fit_transform(data, True, kws) and counts(data, True, kws) up to the
\* loop: bs and the empty assignments frame
BootstrapBeginWith(iters, threshs) ==
  /\ ~boot.active
  /\ \E caller \in Callers, inst \in Instances, n_iter \in iters,
        thresh \in threshs, min_samples \in MinSamplesChoices :
       boot' = [active |-> TRUE, caller |-> caller, inst |-> inst,
                n_iter |-> n_iter, thresh |-> thresh,
                min_samples |-> min_samples, i |-> 0, assignments |-> <<>>,
                index |-> <<>>]
  /\ ret' = NoRet
  /\ UNCHANGED <<edge_bin, cache, data, bins, tm_index, arg>>

\* the calls with a positive n_iter and the default thresh
BootstrapBegin == BootstrapBeginWith(1 .. MaxIter, ThreshChoices)

\* bs = Bootstrap(data.shape[0], n_iter): what one iteration can yield
TrialSplits == BootstrapSplitsOf[Len(data.index)]

\* index = train_index + test_index of the iterations in which the two
\* arrays can be added, worked out once for every number of rows
TrialIndexesOf ==
  [n \in 1 .. MaxRows |->
     {TrialIndex(split) :
        split \in {sp \in BootstrapSplitsOf[n] : CanBroadcast(sp[1], sp[2])}}]

TrialIndexes == TrialIndexesOf[Len(data.index)]

\* the iteration with the resampled, column-dropped frame written back to
\* the caller's matrix
BootstrapTrialInPlace ==
  /\ boot.active /\ boot.i < boot.n_iter
  /\ \E index \in TrialIndexes :
       /\ IndexInRange(data, index)
       /\ boot' = [boot EXCEPT
                     !.i = @ + 1, !.index = index,
                     !.assignments =
                        Append(@, TrialRow(data, index, boot.min_samples,
                                           bins[boot.inst], tm_index))]
       /\ data' = TrialPsi(data, index, boot.min_samples)
  /\ tm_index' = single_fit_index(bins[boot.inst])
  /\ UNCHANGED <<edge_bin, cache, bins, ret, arg>>

\* one iteration of the loop that completes
BootstrapTrial ==
  /\ boot.active /\ boot.i < boot.n_iter
  /\ \E index \in TrialIndexes :
       /\ IndexInRange(data, index)
       /\ boot' = [boot EXCEPT
                     !.i = @ + 1, !.index = index,
                     !.assignments =
                        Append(@, TrialRow(data, index, boot.min_samples,
                                           bins[boot.inst], tm_index))]
  /\ tm_index' = single_fit_index(bins[boot.inst])
  /\ UNCHANGED <<edge_bin, cache, data, bins, ret, arg>>

\* the failing iteration handing back the tally of the trials before it
BootstrapRaisePartial ==
  /\ boot.active /\ boot.i < boot.n_iter
  /\ \E raised \in {"IndexError", "ValueError"} :
       /\ \E split \in TrialSplits :
            IF raised = "ValueError" THEN ~CanBroadcast(split[1], split[2])
            ELSE /\ CanBroadcast(split[1], split[2])
                 /\ ~IndexInRange(data, TrialIndex(split))
       /\ ret' = [NoRet EXCEPT
                    !.op = boot.caller, !.bootstrapped = TRUE,
                    !.inst = boot.inst, !.n_iter = boot.n_iter,
                    !.thresh = boot.thresh, !.min_samples = boot.min_samples,
                    !.table = boot.assignments,
                    !.value = thresh_assignments(boot.assignments,
                                                 Len(data.columns),
                                                 boot.thresh),
                    !.raised = raised]
  /\ boot' = NoBoot
  /\ UNCHANGED <<edge_bin, cache, data, bins, tm_index, arg>>

\* whether some iteration raises the given exception: the arrays cannot be
\* added (ValueError), or the sum is no position of the index (IndexError)
TrialRaises(raised) ==
  \E split \in TrialSplits :
    IF raised = "ValueError" THEN ~CanBroadcast(split[1], split[2])
    ELSE /\ CanBroadcast(split[1], split[2])
         /\ ~IndexInRange(data, TrialIndex(split))

\* one iteration of the loop that raises
BootstrapRaise ==
  /\ boot.active /\ boot.i < boot.n_iter
  /\ \E raised \in {"IndexError", "ValueError"} :
       /\ TrialRaises(raised)
       /\ ret' = [NoRet EXCEPT
                    !.op = boot.caller, !.bootstrapped = TRUE,
                    !.inst = boot.inst, !.n_iter = boot.n_iter,
                    !.thresh = boot.thresh, !.min_samples = boot.min_samples,
                    !.table = boot.assignments, !.raised = raised]
  /\ boot' = NoBoot
  /\ UNCHANGED <<edge_bin, cache, data, bins, tm_index, arg>>

\* after the loop: tally, threshold, fill, and return
BootstrapReturn ==
  /\ boot.active /\ boot.i = boot.n_iter
  /\ ret' = [Returned(boot.caller, TRUE, boot.inst,
                      thresh_assignments(boot.assignments, Len(data.columns),
                                         boot.thresh),
                      "computed")
               EXCEPT !.n_iter = boot.n_iter, !.thresh = boot.thresh,
                      !.min_samples = boot.min_samples,
                      !.table = boot.assignments,
                      !.fractions = fractions(boot.assignments,
                                              Len(data.columns))]
  /\ boot' = NoBoot
  /\ UNCHANGED <<edge_bin, cache, data, bins, tm_index, arg>>

\* fit_transform(data, True, kws) and counts(data, True, kws) answered by
\* memoize with the stored result of the call that has just returned, for
\* the same estimator and the same kws: no trial runs and the reference
\* table is not touched.  Of the bootstrap results only the latest is kept
\* for a repeated call.
BootstrapCached ==
  /\ ~boot.active
  /\ ret.op \in Callers /\ ret.bootstrapped /\ ret.raised = "none"
  /\ \E caller \in Callers :
       ret' = [ret EXCEPT !.op = caller,
                          !.sizes = IF caller = "counts"
                                    THEN groupby_size(ret.value)
                                    ELSE NoSizes,
                          !.how = "cached"]
  /\ UNCHANGED <<edge_bin, cache, data, bins, tm_index, boot, arg>>

Next ==
  \/ FitTransformSingle
  \/ CountsSingle
  \/ BootstrapBegin
  \/ BootstrapTrial
  \/ BootstrapRaise
  \/ BootstrapReturn
  \/ BootstrapCached

Spec == Init /\ [][Next]_vars

(***************************************************************************)
(* Single-pass estimation alone, over one event with values on the inner   *)
(* bin edges and strictly inside the bins                                  *)
(***************************************************************************)
SingleSampleIds == <<"s1", "s2", "s3", "s4">>

SingleEventIds == <<"e1">>

SinglePsiValues == <<{0, 2, 8, 10, NaN}>>

InitSingle ==
  /\ Constructed(Frames(SingleSampleIds, SingleEventIds, SinglePsiValues))
  /\ EitherBinify
  /\ Idle
  /\ arg = NoArg

NextSingle ==
  \/ FitTransformSingle
  \/ CountsSingle

SpecSingle == InitSingle /\ [][NextSingle]_vars

(***************************************************************************)
(* Methods called on their own, on arguments drawn from small sets         *)
(***************************************************************************)
\* the state with the estimators constructed, an empty matrix loaded and
\* the argument chosen
InitDirect(args) ==
  /\ Constructed(Frames(SampleIds, EventIds, <<{NaN}, {NaN}>>))
  /\ NoBinify
  /\ arg \in args

\* divergence matrices of one event: every column over a few values, ties
\* and nan included, and every column sqrt_jsd_modalities can produce
DivergenceValues == {0, 1, 2, NaN}

DivergenceColumns ==
  [ModPos -> DivergenceValues]
  \cup {sqrt_jsd_modalities([index |-> RangeIndex, columns |-> <<p>>],
                            RangeIndex)[1] : p \in FractionColumns}

InitAssign ==
  /\ InitDirect({[NoArg EXCEPT !.sqrt_jsd = <<d>>] : d \in DivergenceColumns})
  /\ Idle

\* Modalities.assignments(sqrt_jsd_modalities)
AssignmentsCall ==
  /\ ~boot.active /\ arg.sqrt_jsd # <<>>
  /\ \E inst \in Instances :
       ret' = Returned("assignments", FALSE, inst, assignments(arg.sqrt_jsd),
                       "computed")
  /\ UNCHANGED <<edge_bin, cache, data, bins, tm_index, boot, arg>>

SpecAssign == InitAssign /\ [][AssignmentsCall]_vars

\* the largest number of trials of a table of votes
MaxTrials == 5

\* the votes a trial can leave under each of the two columns
TallyVotes == <<{"excluded", "bimodal", Missing}, {"excluded", Missing}>>

VoteTables ==
  UNION {[1 .. k -> {row \in [DOMAIN EventIds -> TallyVotes[1]] :
                       \A c \in DOMAIN EventIds : row[c] \in TallyVotes[c]}] :
           k \in 1 .. MaxTrials}

InitTally ==
  /\ InitDirect({[NoArg EXCEPT !.table = t, !.thresh = th] :
                   t \in VoteTables, th \in ThreshChoices})
  /\ Idle

\* the statements of _bootstrapped_fit_transform after the loop, on the
\* assignments frame given
TallyCall ==
  /\ ~boot.active /\ arg.table # <<>>
  /\ \E inst \in Instances :
       ret' = [Returned("fit_transform", TRUE, inst,
                        thresh_assignments(arg.table, Len(data.columns),
                                           arg.thresh),
                        "computed")
                 EXCEPT !.n_iter = Len(arg.table), !.thresh = arg.thresh,
                        !.table = arg.table,
                        !.fractions = fractions(arg.table, Len(data.columns))]
  /\ UNCHANGED <<edge_bin, cache, data, bins, tm_index, boot, arg>>

SpecTally == InitTally /\ [][TallyCall]_vars

\* thresholds below one half, at one half, and the default above it
TallyThresholds == {<<1, 3>>, <<1, 2>>, DefaultThresh}

InitThresh ==
  /\ InitDirect({[NoArg EXCEPT !.table = t, !.thresh = th] :
                   t \in VoteTables, th \in TallyThresholds})
  /\ Idle

SpecThresh == InitThresh /\ [][TallyCall]_vars

(***************************************************************************)
(* Construction with any pair of edges                                     *)
(***************************************************************************)
\* the values excluded_max and included_min are drawn from, in tenths:
\* 1.2 is outside [0, 1]
EdgeValues == {0, 2, 8, 10, 12}

\* the bins of an estimator that was not constructed
NotConstructed == <<>>

InitConstruct ==
  /\ data \in Frames(SampleIds, EventIds, <<{NaN}, {NaN}>>)
  /\ bins = [inst \in Instances |-> NotConstructed]
  /\ NoBinify
  /\ Idle
  /\ arg = NoArg

\* Modalities(excluded_max, included_min): __init__ stores the edges
Construct ==
  /\ ~boot.active
  /\ \E inst \in Instances, excluded_max \in EdgeValues,
        included_min \in EdgeValues :
       /\ bins' = [bins EXCEPT
                     ![inst] = ModalitiesInit(excluded_max, included_min)]
       /\ ret' = [NoRet EXCEPT !.op = "__init__", !.inst = inst]
  /\ UNCHANGED <<edge_bin, cache, data, tm_index, boot, arg>>

SpecConstruct == InitConstruct /\ [][Construct]_vars

(***************************************************************************)
(* Bootstrap calls with any n_iter and thresh                              *)
(***************************************************************************)
\* thresh = 0, 0.6 and 1.5
AnyThresh == {<<0, 1>>, DefaultThresh, <<3, 2>>}

InitConfig ==
  /\ Constructed(Frames(SampleIds, EventIds, <<{8, NaN}, {8}>>))
  /\ UpperEdgeBinify
  /\ Idle
  /\ arg = NoArg

BootstrapBeginAny == BootstrapBeginWith(0 .. 1, AnyThresh)

NextConfig ==
  \/ BootstrapBeginAny
  \/ BootstrapTrial
  \/ BootstrapRaise
  \/ BootstrapReturn

SpecConfig == InitConfig /\ [][NextConfig]_vars

(***************************************************************************)
(* get_switchy_score_order on matrices of two samples and three events     *)
(***************************************************************************)
SwitchySamples == <<"s1", "s2", "s3">>

SwitchyEvents == <<"e1", "e2", "e3">>

\* the values of each event: low and high or missing, middle, middle to
\* high
SwitchyValues == <<{0, 2, 8, NaN}, {3, 6}, {5, 9, 10}>>

\* the columns an event can hold
SwitchyColumns ==
  UNION {[DOMAIN SwitchySamples -> SwitchyValues[c]] :
           c \in DOMAIN SwitchyEvents}

\* switchy_score of each of them, worked out once
switchy_score_of == [col \in SwitchyColumns |-> switchy_score(col)]

\* np.apply_along_axis(switchy_score, axis=0, arr=x): a score per column
switchy_scores(x) == [c \in DOMAIN x |-> switchy_score_of[x[c]]]

InitSwitchy ==
  /\ InitDirect({[NoArg EXCEPT !.x = x] :
                   x \in {<<e1, e2, e3>> :
                            e1 \in [DOMAIN SwitchySamples -> SwitchyValues[1]],
                            e2 \in [DOMAIN SwitchySamples -> SwitchyValues[2]],
                            e3 \in [DOMAIN SwitchySamples -> SwitchyValues[3]]}})
  /\ Idle

\* get_switchy_score_order(x)
SwitchyOrderCall ==
  /\ ~boot.active /\ arg.x # <<>>
  /\ \E order \in argsort(switchy_scores(arg.x)) :
       ret' = [NoRet EXCEPT !.op = "get_switchy_score_order", !.value = order]
  /\ UNCHANGED <<edge_bin, cache, data, bins, tm_index, boot, arg>>

SpecSwitchy == InitSwitchy /\ [][SwitchyOrderCall]_vars

(***************************************************************************)
(* The divergence of two vectors of counts                                 *)
(***************************************************************************)
InitDivergence ==
  /\ InitDirect({[NoArg EXCEPT !.p = p, !.q = q] :
                   p \in CountColumns, q \in CountColumns})
  /\ Idle

\* np.sqrt(jsd(...)) of the two arguments in either order, and
\* sqrt_jsd_modalities of a binned matrix whose one column is q
DivergenceCall ==
  /\ ~boot.active /\ arg.p # <<>>
  /\ ret' = [NoRet EXCEPT
               !.op = "jsd",
               !.divergence =
                  [pq |-> sqrt(jsd(arg.p, AsFractions(arg.q))),
                   qp |-> sqrt(jsd(arg.q, AsFractions(arg.p))),
                   modalities |->
                     sqrt_jsd_modalities(
                       [index |-> RangeIndex,
                        columns |-> <<AsFractions(arg.q)>>], RangeIndex)[1]]]
  /\ UNCHANGED <<edge_bin, cache, data, bins, tm_index, boot, arg>>

SpecDivergence == InitDivergence /\ [][DivergenceCall]_vars

(***************************************************************************)
(* BaseData.maybe_renamed_to_feature_id                                    *)
(***************************************************************************)
\* feature ids the feature data describes: "e9" is no column of the matrix
FeatureIndex == <<"e1", "e2", "e9">>

\* the names a feature is renamed to, or none
FeatureNames == {"g1", "g2", Missing}

FeatureData ==
  {NoFeatureData}
  \cup {[given |-> TRUE, index |-> FeatureIndex, columns |-> <<"gene_name">>,
         values |-> <<names>>] :
          names \in [DOMAIN FeatureIndex -> FeatureNames]}

FeatureIds == {"g1", "e1", "e9", "zz"}

\* the rename columns: none, the column of feature_data, and a name that
\* is no column of it
RenameCols == {None, "gene_name", "gene_symbol"}

\* the subsets given as a pd.Index of ids; <<>> stands for None
FeatureSubsets == {<<>>, <<"e2">>, <<"e9", "e1">>}

\* the largest number of custom columns added to feature_data
MaxCustom == 1

InitRename ==
  /\ InitDirect({[NoArg EXCEPT !.feature_data = fd,
                               !.feature_rename_col = col,
                               !.feature_id = id] :
                   fd \in FeatureData, col \in RenameCols,
                   id \in FeatureIds})
  /\ Idle

MaybeRenamedCall ==
  /\ ~boot.active /\ arg.feature_id # ""
  /\ \E out \in maybe_renamed_to_feature_id(arg.feature_data,
                                             arg.feature_rename_col,
                                             data.columns, arg.feature_id) :
       ret' = [NoRet EXCEPT !.op = "maybe_renamed_to_feature_id",
                            !.raised = out.raised, !.kind = out.kind,
                            !.value = out.value, !.message = out.message]
  /\ UNCHANGED <<edge_bin, cache, data, bins, tm_index, boot, arg>>

FeatureSubsetCall ==
  /\ ~boot.active /\ arg.feature_id # ""
  /\ n_custom(arg.feature_data) < MaxCustom
  /\ \E feature_subset \in FeatureSubsets, rename \in BOOLEAN :
       \E out \in feature_subset_to_feature_ids(arg.feature_data,
                                                arg.feature_rename_col,
                                                data.columns, feature_subset,
                                                rename) :
         /\ ret' = [NoRet EXCEPT !.op = "feature_subset_to_feature_ids",
                                  !.raised = out.raised, !.value = out.value]
         /\ arg' = [arg EXCEPT !.feature_data = out.feature_data]
  /\ UNCHANGED <<edge_bin, cache, data, bins, tm_index, boot>>

NextRename ==
  \/ MaybeRenamedCall
  \/ FeatureSubsetCall

SpecRename == InitRename /\ [][NextRename]_vars

(***************************************************************************)
(* BaseData.drop_outliers                                                  *)
(***************************************************************************)
\* the labels of a frame's rows
IndexLabels(frame) == {frame.index[r] : r \in DOMAIN frame.index}

\* DataFrame.drop(labels): the frame without the rows so labelled
drop(frame, labels) ==
  TakeRows(frame,
           SelectSeq([r \in DOMAIN frame.index |-> r - 1],
                     LAMBDA pos : frame.index[pos + 1] \notin labels))

\* frame.ix[labels] for a set of labels: a row per label, that of the frame
\* when the label is in its index and a row of nan when it is not
ix(frame, labels) ==
  [label \in labels |->
     [c \in DOMAIN frame.columns |->
        IF label \in IndexLabels(frame)
        THEN frame.values[c][CHOOSE r \in DOMAIN frame.index :
                               frame.index[r] = label]
        ELSE NaN]]

\* drop_outliers(data, outliers) of an object whose pooled samples are
\* pooled_samples: the pair returned
drop_outliers(frame, pooled_samples, outliers) ==
  LET in_index == outliers \cap IndexLabels(frame)
      not_pooled == in_index \ pooled_samples
      dropped == drop(frame, not_pooled)
  IN  [data |-> dropped, outlier_data |-> ix(dropped, not_pooled)]

\* requested outliers: samples of the matrix and one that is not
OutlierIds == {"s1", "s2", "s9"}

\* samples that can be marked as pooled
PooledIds == {"s2", "s3"}

OutlierValues == <<{0, 8}, {8, NaN}>>

InitOutliers ==
  /\ Constructed(Frames(SampleIds, EventIds, OutlierValues))
  /\ NoBinify
  /\ arg \in {[NoArg EXCEPT !.outliers = o, !.pooled_samples = p] :
                o \in SUBSET OutlierIds, p \in SUBSET PooledIds}
  /\ Idle

DropOutliersCall ==
  /\ ~boot.active
  /\ LET out == drop_outliers(data, arg.pooled_samples, arg.outliers)
     IN  ret' = [NoRet EXCEPT !.op = "drop_outliers", !.kept = out.data,
                              !.outlier_data = out.outlier_data]
  /\ UNCHANGED <<edge_bin, cache, data, bins, tm_index, boot, arg>>

SpecOutliers == InitOutliers /\ [][DropOutliersCall]_vars

(***************************************************************************)
(* Properties                                                              *)
(***************************************************************************)
ModalityNames == {modalities_names[m] : m \in ModPos}

\* a call of fit_transform or counts has returned (counts holds the
\* assignments it grouped in ret.value)
ReturnedSingle == ret.op # "none" /\ ~ret.bootstrapped /\ ret.raised = "none"

ReturnedBootstrap == ret.op # "none" /\ ret.bootstrapped /\ ret.raised = "none"

\* the rows of column c that hold a value
Present(c) == {r \in DOMAIN data.values[c] : ~IsNaN(data.values[c][r])}

\* the rows of column c whose value lies in [lo, hi]
Within(c, lo, hi) ==
  {r \in Present(c) : lo <= data.values[c][r] /\ data.values[c][r] <= hi}

\* the rows of column c whose value lies in [lo, hi) when open_hi, in
\* (lo, hi] otherwise
Inside(c, lo, hi, open_hi) ==
  {r \in Present(c) :
     IF open_hi THEN lo <= data.values[c][r] /\ data.values[c][r] < hi
     ELSE lo < data.values[c][r] /\ data.values[c][r] <= hi}

RECURSIVE SumSizes(_, _)
SumSizes(sizes, names) ==
  IF names = {} THEN 0
  ELSE LET name == CHOOSE x \in names : TRUE
       IN  sizes[name] + SumSizes(sizes, names \ {name})

NoData(c) == Present(c) = {}

\* C3 (as claimed): after a single-pass call, an event with no non-missing
\* value has a missing assignment and none of the five modality names.
C3_NoDataIsMissing ==
  ReturnedSingle =>
    \A c \in DOMAIN data.columns : NoData(c) => ret.value[c] \notin ModalityNames

\* C5 (as claimed): a bootstrap call on a matrix with an event that has no
\* value at all, which every trial drops (zero valid trials), completes
\* without raising, and the event is 'unassigned' in what it returns.
C5_ZeroValidTrialsUnassigned ==
  (ret.op \in Callers /\ ret.bootstrapped) =>
    \A c \in DOMAIN data.columns :
      (NoData(c) /\ ValidTrials(ret.table, c) = 0)
        => (ret.raised = "none" /\ ret.value[c] = "unassigned")

\* C6: every label fit_transform returns is one of the five modality names
\* or 'unassigned', and 'unassigned' is never returned when bootstrapped is
\* False.
C6_LabelsAreCategories ==
  (ret.op # "none" /\ ret.raised = "none") =>
    \A c \in DOMAIN ret.value :
      /\ ret.value[c] \in ModalityNames \cup {"unassigned"}
      /\ ~ret.bootstrapped => ret.value[c] # "unassigned"

\* a bootstrap call returned 'unassigned' for one event and a modality for
\* another one
C6_Witness ==
  /\ ReturnedBootstrap /\ ret.op = "fit_transform"
  /\ \E c, k \in DOMAIN ret.value :
       ret.value[c] = "unassigned" /\ ret.value[k] \in ModalityNames

\* C7: counts returns, for each category present among the assignments,
\* the number of events assigned to it; in bootstrap mode 'unassigned' is
\* one of the categories counted and the sizes add up to the number of
\* events of the matrix.
C7_CountsGroupSizes ==
  (ret.op = "counts" /\ ret.raised = "none") =>
    /\ \A c \in DOMAIN ret.value :
         ret.value[c] # Missing => ret.value[c] \in DOMAIN ret.sizes
    /\ \A name \in DOMAIN ret.sizes :
         /\ ret.sizes[name] > 0
         /\ ret.sizes[name] =
              Cardinality({c \in DOMAIN ret.value : ret.value[c] = name})
    /\ ret.bootstrapped =>
         SumSizes(ret.sizes, DOMAIN ret.sizes) = Len(data.columns)

\* counts in bootstrap mode returned one event under 'unassigned' and one
\* under a modality
C7_Witness ==
  /\ ReturnedBootstrap /\ ret.op = "counts"
  /\ "unassigned" \in DOMAIN ret.sizes /\ ret.sizes["unassigned"] = 1
  /\ \E name \in ModalityNames : name \in DOMAIN ret.sizes

\* C8 (as claimed): with bootstrapped=False the sizes counts returns add up
\* to the number of events that have data, an event without data being
\* counted nowhere; with bootstrapped=True that event is counted under
\* 'unassigned'.
C8_NoDataCountsAsymmetry ==
  /\ (ReturnedSingle /\ ret.op = "counts") =>
       SumSizes(ret.sizes, DOMAIN ret.sizes) =
         Cardinality({c \in DOMAIN data.columns : ~NoData(c)})
  /\ (ReturnedBootstrap /\ ret.op = "counts") =>
       \A c \in DOMAIN data.columns :
         NoData(c) => ret.value[c] = "unassigned"
                      /\ "unassigned" \in DOMAIN ret.sizes

C10_MatrixUnchanged == [][data' = data]_vars

\* a bootstrap call returned after a trial that dropped one column of its
\* resample and kept the other, and the matrix still has all its columns
C10_Witness ==
  /\ ReturnedBootstrap
  /\ data.index = SampleIds /\ data.columns = EventIds
  /\ \E i \in DOMAIN ret.table :
       \E c, k \in DOMAIN data.columns :
         ret.table[i][c] = Missing /\ ret.table[i][k] # Missing

\* C2: with thresh = 0.6, an event that got the same modality in at least
\* 60% of the trials it was present in is given that modality, a fraction of
\* exactly 60% included, and an event for which no modality reaches 60% of
\* its valid trials is 'unassigned'.
C2_BootstrapConsensus ==
  (ReturnedBootstrap /\ ret.thresh = DefaultThresh) =>
    \A c \in DOMAIN ret.value :
      LET valid == ValidTrials(ret.table, c)
          reaches(name) ==
            valid > 0 /\ 10 * Votes(ret.table, c, name) >= 6 * valid
      IN  /\ \A name \in ModalityNames : reaches(name) => ret.value[c] = name
          /\ (\A name \in ModalityNames : ~reaches(name))
               => ret.value[c] = "unassigned"

\* five trials: one event got 'bimodal' in exactly 3 of its 5 valid trials
\* and is 'bimodal'; the other was present in 2 trials only, got 'excluded'
\* in both, and is 'excluded'
C2_Witness ==
  /\ ReturnedBootstrap /\ ret.thresh = DefaultThresh /\ Len(ret.table) = 5
  /\ ValidTrials(ret.table, 1) = 5 /\ Votes(ret.table, 1, "bimodal") = 3
  /\ ret.value[1] = "bimodal"
  /\ ValidTrials(ret.table, 2) = 2 /\ Votes(ret.table, 2, "excluded") = 2
  /\ ret.value[2] = "excluded"

\* C4: assignments gives each event whose five divergences are all defined
\* the modality of the smallest one, and on an exact tie for the smallest
\* the first of the tied modalities in the order excluded, middle, included,
\* bimodal, uniform.
C4_ArgminFirstOnTies ==
  ret.op = "assignments" =>
    \A e \in DOMAIN arg.sqrt_jsd :
      LET d == arg.sqrt_jsd[e]
      IN  (\A m \in ModPos : ~IsNaN(d[m])) =>
            \E m \in ModPos :
              /\ ret.value[e] = modalities_names[m]
              /\ \A j \in ModPos : d[m] <= d[j]
              /\ \A j \in ModPos : j < m => d[j] > d[m]

\* 'middle' and 'bimodal' tie for the smallest divergence, 'excluded' is
\* farther, and the event is 'middle'
C4_Witness ==
  /\ ret.op = "assignments"
  /\ LET d == arg.sqrt_jsd[1]
     IN  /\ \A m \in ModPos : ~IsNaN(d[m])
         /\ d[2] = d[4] /\ d[1] > d[2] /\ d[3] > d[2] /\ d[5] > d[2]
  /\ ret.value[1] = "middle"

\* edges 0 <= excluded_max < included_min <= 1
WellFormed(edges) == 0 <= edges[2] /\ edges[2] < edges[3] /\ edges[3] <= 10

\* C11: no estimator exists whose bin edges are malformed: construction with
\* edges that are not 0 <= excluded_max < included_min <= 1 fails and stores
\* nothing.
C11_MalformedEdgesRejected ==
  \A inst \in Instances :
    bins[inst] # NotConstructed => WellFormed(bins[inst])

\* n_iter <= 0, or thresh outside (0, 1]
BadConfig(n_iter, thresh) ==
  n_iter <= 0 \/ thresh[1] <= 0 \/ thresh[1] > thresh[2]

\* C12: a bootstrap call with n_iter <= 0 or thresh outside (0, 1] never
\* gets past its entry: it is never in its loop or tally, and it ends raised
\* with no trial run and no assignment.
C12_BadConfigFailsAtEntry ==
  /\ boot.active => ~BadConfig(boot.n_iter, boot.thresh)
  /\ (ret.op # "none" /\ ret.bootstrapped /\ BadConfig(ret.n_iter, ret.thresh))
       => (ret.raised # "none" /\ ret.table = <<>> /\ ret.value = <<>>)

\* C13: a fit_transform call (directly or through counts) that returns gives
\* exactly one entry for every column of the matrix, in either mode, and a
\* call that raises gives no assignment at all.
C13_NoPartialResult ==
  ret.op \in Callers =>
    IF ret.raised = "none"
    THEN DOMAIN ret.value = DOMAIN data.columns
    ELSE ret.value = <<>> /\ ret.sizes = NoSizes

\* a bootstrap call that raised in a later trial, with the votes of an
\* earlier trial already written, and handed back nothing
C13_Witness ==
  /\ ret.op = "fit_transform" /\ ret.bootstrapped
  /\ ret.raised = "IndexError"
  /\ Len(ret.table) >= 1
  /\ \E c \in DOMAIN data.columns : ret.table[1][c] # Missing
  /\ ret.value = <<>>

\* every value of column c of x is present and within lo .. hi
AllWithin(x, c, lo, hi) ==
  \A r \in DOMAIN x[c] : ~IsNaN(x[c][r]) /\ lo <= x[c][r] /\ x[c][r] <= hi

\* C15: get_switchy_score_order returns a permutation of the column
\* positions 0 .. n_events - 1 in which the events with a score come in
\* ascending order of their switchy score (scores closer than the
\* resolution of the fixed-point arithmetic count as equal); an event with
\* all values near 0 (<= 0.1) comes before an event with all values near 1
\* (>= 0.9).
C15_SwitchyOrderAscending ==
  ret.op = "get_switchy_score_order" =>
    LET n == Len(arg.x)
        order == ret.value
        score(c) == switchy_score_of[arg.x[c]]
        place(c) == CHOOSE i \in DOMAIN order : order[i] = c - 1
    IN  /\ DOMAIN order = 1 .. n
        /\ {order[i] : i \in DOMAIN order} = 0 .. (n - 1)
        /\ \A i, j \in DOMAIN order :
             (i < j /\ ~IsNaNFrac(score(order[i] + 1))
                    /\ ~IsNaNFrac(score(order[j] + 1)))
               => score(order[i] + 1)[1] <= score(order[j] + 1)[1] + ScoreTol
        /\ \A a, b \in 1 .. n :
             (AllWithin(arg.x, a, 0, 1) /\ AllWithin(arg.x, b, 9, 10))
               => place(a) < place(b)

\* the first event is near 0, the second has the values 0.3, 0.3, 0.6, the
\* third is near 1, and the order returned is first, second, third
C15_Witness ==
  /\ ret.op = "get_switchy_score_order"
  /\ arg.x = <<<<0, 0, 0>>, <<3, 3, 6>>, <<9, 10, 9>>>>
  /\ ret.value = <<0, 1, 2>>

\* a and b are the same distribution once each is divided by its sum
SameDistribution(a, b) ==
  \A i \in BinPos : a[i] * SumSeq(b) = b[i] * SumSeq(a)

\* C16: the square-root Jensen-Shannon divergence of two valid distributions
\* is the same in both orders of its arguments and is 0 when they are the
\* same distribution; an event whose binned distribution equals a
\* normalised reference pattern is at divergence 0 from that modality.
C16_DivergenceZeroAndSymmetric ==
  ret.op = "jsd" =>
    /\ (SumSeq(arg.p) > 0 /\ SumSeq(arg.q) > 0) =>
         /\ ~IsNaN(ret.divergence.pq)
         /\ ret.divergence.pq = ret.divergence.qp
         /\ SameDistribution(arg.p, arg.q) => ret.divergence.pq = 0
    /\ SumSeq(arg.q) > 0 =>
         \A m \in ModPos :
           SameDistribution(arg.q, modalities_bins[m])
             => ret.divergence.modalities[m] = 0

\* an event with two values in the first bin and two in the last against
\* the pattern (1, 0, 1): at 0 from each other in both orders, and at 0 from
\* 'bimodal', the fourth modality
C16_Witness ==
  /\ ret.op = "jsd"
  /\ arg.p = <<1, 0, 1>> /\ arg.q = <<2, 0, 2>>
  /\ ret.divergence.pq = 0 /\ ret.divergence.qp = 0
  /\ ret.divergence.modalities[4] = 0
  /\ ret.divergence.modalities[1] > 0

\* the names features are renamed to: the non-missing entries of the rename
\* column of the feature data, when there is one
RenamedNames ==
  IF arg.feature_data.given
     /\ \E k \in DOMAIN arg.feature_data.columns :
          arg.feature_data.columns[k] = arg.feature_rename_col
  THEN {arg.feature_data.values[1][r] :
          r \in DOMAIN arg.feature_data.values[1]} \ {Missing}
  ELSE {}

\* C17: maybe_renamed_to_feature_id raises a ValueError naming the
\* identifier when it is neither a renamed feature name nor a column of the
\* data, and otherwise returns identifiers that are all columns of the data.
C17_RenameLookup ==
  ret.op = "maybe_renamed_to_feature_id" =>
    IF arg.feature_id \in RenamedNames
       \/ \E c \in DOMAIN data.columns : data.columns[c] = arg.feature_id
    THEN /\ ret.raised = "none"
         /\ \A k \in DOMAIN ret.value :
              \E c \in DOMAIN data.columns : data.columns[c] = ret.value[k]
    ELSE ret.raised = "ValueError" /\ ret.message = arg.feature_id

\* C18 (as claimed): the rows of a completed bootstrap trial are as many as
\* the rows of the matrix, and every row position 0 .. n - 1 is among them
\* exactly once.
C18_TrialUsesEveryRowOnce ==
  (boot.active /\ boot.i >= 1) =>
    /\ Len(boot.index) = Len(data.index)
    /\ \A pos \in 0 .. (Len(data.index) - 1) :
         Cardinality({j \in DOMAIN boot.index : boot.index[j] = pos}) = 1

\* C19: in the trial just completed, an event with fewer than min_samples
\* non-missing values among the trial's rows has no vote in the trial's row
\* of the assignments frame, and an event with at least min_samples has
\* exactly one vote, a modality name.
C19_DroppedEventsCastNoVote ==
  (boot.active /\ boot.i >= 1) =>
    LET rows == TakeRows(data, boot.index)
        votes == boot.assignments[boot.i]
    IN  \A c \in DOMAIN data.columns :
          IF Cardinality({r \in DOMAIN rows.values[c] :
                            ~IsNaN(rows.values[c][r])}) < boot.min_samples
          THEN votes[c] = Missing
          ELSE votes[c] \in ModalityNames

\* a trial with min_samples = 2 and two rows: the first event has a value in
\* one of them only and casts no vote, the second has exactly two and votes
C19_Witness ==
  /\ boot.active /\ boot.i >= 1 /\ boot.min_samples = 2
  /\ Len(boot.index) = 2
  /\ NonMissing(TakeRows(data, boot.index), 1) = 1
  /\ NonMissing(TakeRows(data, boot.index), 2) = 2
  /\ boot.assignments[boot.i][1] = Missing
  /\ boot.assignments[boot.i][2] \in ModalityNames

\* C20: in the tally, the fraction of a modality for an event is the number
\* of trials that gave the event that modality over the number of trials in
\* which the event has a vote (a modality no trial gave it has no entry), and
\* for an event with a vote the fractions sum to 1.
C20_FractionsOverValidTrials ==
  ReturnedBootstrap =>
    LET index == CountsIndex(ret.table)
        n_votes(c, name) ==
          Cardinality({i \in DOMAIN ret.table : ret.table[i][c] = name})
        n_valid(c) ==
          Cardinality({i \in DOMAIN ret.table : ret.table[i][c] # Missing})
    IN  \A c \in DOMAIN ret.fractions :
          /\ DOMAIN ret.fractions[c] = DOMAIN index
          /\ \A m \in DOMAIN index :
               IF n_votes(c, index[m]) = 0
               THEN IsNaNFrac(ret.fractions[c][m])
               ELSE ret.fractions[c][m] = <<n_votes(c, index[m]), n_valid(c)>>
          /\ n_valid(c) > 0 =>
               SumSeq([m \in DOMAIN index |-> ret.fractions[c][m][1]])
                 = n_valid(c)

\* five trials; the second event has a vote in three of them only, two for
\* 'excluded' out of three: its fraction is 2/3, not 2/5
C20_Witness ==
  /\ ReturnedBootstrap /\ Len(ret.table) = 5
  /\ CountsIndex(ret.table) = <<"bimodal", "excluded">>
  /\ ret.fractions[1] = <<<<2, 5>>, <<3, 5>>>>
  /\ ret.fractions[2] = <<<<0, 0>>, <<3, 3>>>>

\* the modalities whose fraction of the valid trials of event c reaches the
\* threshold of the call that returned
Qualifying(c) ==
  {name \in ModalityNames :
     /\ Votes(ret.table, c, name) > 0
     /\ Votes(ret.table, c, name) * ret.thresh[2]
          >= ret.thresh[1] * ValidTrials(ret.table, c)}

\* those of them with the most votes
TopQualifying(c) ==
  {name \in Qualifying(c) :
     \A other \in Qualifying(c) :
       Votes(ret.table, c, name) >= Votes(ret.table, c, other)}

\* the first of a non-empty set of names in the given order
FirstIn(order, names) ==
  order[CHOOSE m \in DOMAIN order :
          /\ order[m] \in names
          /\ \A k \in DOMAIN order : order[k] \in names => m <= k]

\* C21 as stated: among the modalities that reach thresh the one with the
\* largest fraction is picked, and of several with the largest fraction
\* the first in the order excluded, middle, included, bimodal, uniform.
C21_TieByTableOrder ==
  ReturnedBootstrap =>
    \A c \in DOMAIN ret.value :
      Qualifying(c) # {} =>
        ret.value[c] = FirstIn(modalities_names, TopQualifying(c))

\* C21: among the modalities that reach thresh the one with the largest
\* fraction is picked, and of several with the largest fraction the first
\* in the sorted order of the labels: bimodal, excluded, included, middle,
\* uniform.
C21_TieBySortedLabel ==
  ReturnedBootstrap =>
    \A c \in DOMAIN ret.value :
      Qualifying(c) # {} =>
        /\ ret.value[c] \in TopQualifying(c)
        /\ ret.value[c] = FirstIn(SortedNames, TopQualifying(c))

\* thresh = 1/2 and four trials: the first event got 'excluded' in two and
\* 'bimodal' in two, both reach the threshold with the same fraction, and
\* the event is 'bimodal'
C21_Witness ==
  /\ ReturnedBootstrap /\ ret.thresh = <<1, 2>> /\ Len(ret.table) = 4
  /\ Votes(ret.table, 1, "excluded") = 2
  /\ Votes(ret.table, 1, "bimodal") = 2
  /\ TopQualifying(1) = {"excluded", "bimodal"}
  /\ ret.value[1] = "bimodal"

\* C26: with thresh above one half at most one modality of an event
\* reaches it, and the event is given that modality, or 'unassigned' when
\* there is none, whatever the order of the labels.
C26_AtMostOneQualifies ==
  (ReturnedBootstrap /\ 2 * ret.thresh[1] > ret.thresh[2]) =>
    \A c \in DOMAIN ret.value :
      /\ Cardinality(Qualifying(c)) <= 1
      /\ \A name \in Qualifying(c) : ret.value[c] = name
      /\ Qualifying(c) = {} => ret.value[c] = "unassigned"

\* thresh = 0.6 and five trials: the first event got 'bimodal' in three and
\* 'excluded' in two, only 'bimodal' reaches the threshold; the second got
\* no vote at all and is 'unassigned'
C26_Witness ==
  /\ ReturnedBootstrap /\ ret.thresh = DefaultThresh /\ Len(ret.table) = 5
  /\ Votes(ret.table, 1, "bimodal") = 3
  /\ Votes(ret.table, 1, "excluded") = 2
  /\ Qualifying(1) = {"bimodal"} /\ ret.value[1] = "bimodal"
  /\ ValidTrials(ret.table, 2) = 0 /\ ret.value[2] = "unassigned"

\* C27: an event given a modality under the threshold of the call is given
\* the same modality, on the same votes, under every threshold that is not
\* larger.
C27_ThresholdMonotone ==
  ReturnedBootstrap =>
    \A lower \in TallyThresholds :
      lower[1] * ret.thresh[2] <= ret.thresh[1] * lower[2] =>
        \A c \in DOMAIN ret.value :
          ret.value[c] # "unassigned" =>
            thresh_assignments(ret.table, Len(ret.value), lower)[c]
              = ret.value[c]

\* thresh = 1/2 and three trials, two votes for 'excluded' and one for
\* 'bimodal': 'excluded' under 1/2, and under 1/3, where 'bimodal'
\* qualifies too; under 0.6 as well, where 2/3 still reaches the threshold
C27_Witness ==
  /\ ReturnedBootstrap /\ ret.thresh = <<1, 2>> /\ Len(ret.table) = 3
  /\ Votes(ret.table, 1, "excluded") = 2
  /\ Votes(ret.table, 1, "bimodal") = 1
  /\ ret.value[1] = "excluded"
  /\ thresh_assignments(ret.table, Len(ret.value), <<1, 3>>)[1] = "excluded"
  /\ thresh_assignments(ret.table, Len(ret.value), DefaultThresh)[1]
       = "excluded"

\* C22 as stated: no call of fit_transform, _single_fit_transform or counts
\* changes the class-level reference table; its values and its columns are
\* the constants true_modalities and modalities_names, and its row labels
\* are tm_index.
C22_ReferenceTableImmutable == [][tm_index' = tm_index]_vars

\* C24: the tally is taken over the rows of all n_iter trials, and the
\* assignment returned is the one the same rows give in any other order:
\* exchanging any two trials of the assignments frame leaves it unchanged.
C24_TrialOrderInsensitive ==
  ReturnedBootstrap =>
    /\ Len(ret.table) = ret.n_iter
    /\ \A i, j \in DOMAIN ret.table :
         thresh_assignments([ret.table EXCEPT ![i] = ret.table[j],
                                              ![j] = ret.table[i]],
                            Len(ret.value), ret.thresh)
           = ret.value

\* two trials that voted differently on the first event, 'excluded' then
\* 'included': no modality reaches 0.6 and the event is 'unassigned' in
\* either order
C24_Witness ==
  /\ ReturnedBootstrap /\ ret.n_iter = 2 /\ Len(ret.table) = 2
  /\ ret.table[1][1] = "excluded" /\ ret.table[2][1] = "included"
  /\ ret.value[1] = "unassigned"

\* C25 as stated: every position of the index a trial of the loop can
\* compute is a position of the matrix, 0 .. n_samples - 1.
C25_TrialPositionsValid ==
  boot.active =>
    \A index \in TrialIndexes :
      \A j \in DOMAIN index : index[j] \in 0 .. (Len(data.index) - 1)

\* the requested outliers that are rows of the matrix and not pooled
Droppable == (arg.outliers \cap IndexLabels(data)) \ arg.pooled_samples

\* the row of the matrix with the given label, a value per column
RowOf(frame, label) ==
  [c \in DOMAIN frame.columns |->
     frame.values[c][CHOOSE r \in DOMAIN frame.index :
                       frame.index[r] = label]]

\* the first element of the pair: every row but those of Droppable, in the
\* order and with the values of the matrix
KeptAllOthers ==
  /\ ret.kept.columns = data.columns
  /\ ret.kept.index = SelectSeq(data.index, LAMBDA label : label \notin Droppable)
  /\ \A label \in IndexLabels(ret.kept) :
       RowOf(ret.kept, label) = RowOf(data, label)

\* C30 as stated: drop_outliers returns the matrix without the requested
\* outliers that are in its index and not pooled, every other row kept,
\* together with the rows of exactly those dropped samples holding the
\* values they had before the drop.
C30_DropOutliersPair ==
  ret.op = "drop_outliers" =>
    /\ KeptAllOthers
    /\ DOMAIN ret.outlier_data = Droppable
    /\ \A label \in Droppable :
         ret.outlier_data[label] = RowOf(data, label)

\* the columns another event of the matrix could hold
OtherColumns == [DOMAIN data.index -> {0, 8, NaN}]

\* C28: the modality fit_transform gives an event is the one it gives the
\* event's column alone, and the one it gives it next to any other column:
\* removing, adding or changing the other events does not change it.
C28_PerEventIndependence ==
  ReturnedSingle =>
    \A c \in DOMAIN ret.value :
      /\ single_fit_transform(<<data.values[c]>>, bins[ret.inst], tm_index)[1]
           = ret.value[c]
      /\ \A other \in OtherColumns :
           single_fit_transform(<<other, data.values[c]>>, bins[ret.inst],
                                tm_index)[2]
             = ret.value[c]

\* two events of different modality in one matrix: the first has all its
\* values at 0 and is 'excluded', the second has all at 0.8 and is
\* 'included'
C28_Witness ==
  /\ ReturnedSingle /\ ret.inst = "A"
  /\ data.values[1] = <<0, 0, 0>> /\ data.values[2] = <<8, 8, 8>>
  /\ ret.value = <<"excluded", "included">>

\* a column with rows i and j exchanged
SwapRows(col, i, j) == [col EXCEPT ![i] = col[j], ![j] = col[i]]

\* C29: the modality of an event is that of its column with any two rows
\* exchanged, with a row added in which the event is missing, and with the
\* rows in which it is missing taken away.
C29_MultisetOfValuesOnly ==
  ReturnedSingle =>
    LET col == data.values[1]
        again(other) ==
          single_fit_transform(<<other>>, bins[ret.inst], tm_index)[1]
    IN  /\ \A i, j \in DOMAIN col : again(SwapRows(col, i, j)) = ret.value[1]
        /\ again(Append(col, NaN)) = ret.value[1]
        /\ again(SelectSeq(col, LAMBDA v : ~IsNaN(v))) = ret.value[1]

\* an event with the values 0.8, missing, 0, 0.8 in this order: values
\* in two bins, and a missing row between them
C29_Witness ==
  /\ ReturnedSingle /\ ret.inst = "A"
  /\ data.values[1] = <<8, NaN, 0, 8>>
  /\ ret.value[1] \in ModalityNames

====
